---------------------------- MODULE Spec2Model ----------------------------
(***************************************************************************)
(* Model of labgrid/driver/power/eaton.py: the Eaton ePDU power backend.   *)
(*                                                                         *)
(* power_set and power_get are called by concurrent callers.  Each call    *)
(* validates its arguments, builds a fresh _Snmp object, formats the       *)
(* object identifier and performs one pysnmp request (next(g)).  The call  *)
(* blocks in next(g); the round trip is the only point where calls         *)
(* interleave, so each call is two steps: the part up to the request, and  *)
(* the round trip together with the rest of the function.                  *)
(*                                                                         *)
(* Strings are sequences of one-character strings, so that int() and       *)
(* str.format() are computed rather than assumed.                          *)
(***************************************************************************)
EXTENDS Integers, Sequences, FiniteSets, TLC

VARIABLES call, engine, status, lastSet, probe

vars == <<call, engine, status, lastSet, probe>>

---------------------------------------------------------------------------
(* Bounds of the model *)

NumCallers == 2

Callers == 1..NumCallers

\* identities of the _Snmp objects that can be alive at once
SessionIds == 1..NumCallers

---------------------------------------------------------------------------
(* Module constants of eaton.py *)

OID == <<".", "1", ".", "3", ".", "6", ".", "1", ".", "4", ".", "1", ".",
         "5", "3", "4", ".", "6", ".", "6", ".", "7", ".", "6", ".", "6",
         ".", "1">>

NUMBER_OF_OUTLETS == 16

Outlets == 1..NUMBER_OF_OUTLETS

---------------------------------------------------------------------------
(* Python values and conversions *)

DigitChars == <<"0", "1", "2", "3", "4", "5", "6", "7", "8", "9">>

IsDigit(c) == \E d \in 1..10 : DigitChars[d] = c

DigitVal(c) == (CHOOSE d \in 1..10 : DigitChars[d] = c) - 1

RECURSIVE DecValue(_)
DecValue(s) ==
    IF s = <<>> THEN 0
    ELSE DecValue(SubSeq(s, 1, Len(s) - 1)) * 10 + DigitVal(s[Len(s)])

\* A Python int or a Python str, as passed for `index`.
PyIntObj(n) == [kind |-> "int", n |-> n, s |-> <<>>]

PyStrObj(s) == [kind |-> "str", n |-> 0, s |-> s]

\* int(x): an int is returned unchanged; a str of decimal digits, with an
\* optional leading minus, is parsed; any other str raises ValueError
\* (ok = FALSE).
PyInt(x) ==
    IF x.kind = "int" THEN [ok |-> TRUE, n |-> x.n]
    ELSE LET neg  == Len(x.s) > 0 /\ x.s[1] = "-"
             body == IF neg THEN Tail(x.s) ELSE x.s
         IN  IF body # <<>> /\ \A i \in 1..Len(body) : IsDigit(body[i])
             THEN [ok |-> TRUE,
                   n  |-> IF neg THEN 0 - DecValue(body) ELSE DecValue(body)]
             ELSE [ok |-> FALSE, n |-> 0]

\* int(value) of a bool
PyIntOfBool(b) == IF b THEN 1 ELSE 0

\* "{}".format(n) of an int
RECURSIVE PyStr(_)
PyStr(n) ==
    IF n < 0 THEN <<"-">> \o PyStr(0 - n)
    ELSE IF n < 10 THEN <<DigitChars[n + 1]>>
    ELSE PyStr(n \div 10) \o <<DigitChars[(n % 10) + 1]>>

\* Variant: the sub-tree selector is left out of the address.
FormatWithoutId(prefix, id, index) ==
    prefix \o <<".", "0", ".">> \o PyStr(index)

\* "{}.{}.0.{}".format(prefix, id, index)
Format(prefix, id, index) ==
    prefix \o <<".">> \o PyStr(id) \o <<".", "0", ".">> \o PyStr(index)

\* pysnmp values carried in a variable binding
SnmpInteger(v) == [type |-> "Integer", v |-> v]

SnmpNull == [type |-> "Null", v |-> 0]

\* value == n, for a pysnmp value and a Python int
PyEq(value, n) == value.type = "Integer" /\ value.v = n

---------------------------------------------------------------------------
(* Inputs of the calls *)

\* `port`: None, or a port number given by mistake
PortInputs == {"None", "1"}

\* `index`: ints and strs, inside and outside 1..NUMBER_OF_OUTLETS, and a
\* str that is no number
IndexInputs ==
    { PyIntObj(0), PyIntObj(1), PyStrObj(<<"5">>), PyStrObj(<<"1", "6">>),
      PyIntObj(17), PyStrObj(<<"x">>) }

\* the inputs among them that name an outlet
OutletInputs == { PyIntObj(1), PyStrObj(<<"1", "6">>) }

\* raw status values a device may return besides its four status codes
OddValues == {-1, 4, 5}

---------------------------------------------------------------------------
(* class _Snmp *)

\* Variant: one module-level _Snmp object serves every call.
SharedSnmp(live) == 1

\* _Snmp.__init__: every call constructs a new object (new SnmpEngine,
\* transport, community, context).  Objects are told apart by their
\* identity; a new object is distinct from every object still alive.
NewSnmp(live) ==
    CHOOSE s \in SessionIds :
        s \notin live /\ \A t \in SessionIds : t < s => t \in live

NoReq == [kind |-> "none", oid |-> <<>>, value |-> 0]

\* _Snmp.get: ObjectType(ObjectIdentity(oid)) handed to getCmd
GetRequest(oid) == [kind |-> "get", oid |-> oid, value |-> 0]

\* _Snmp.set: ObjectType(ObjectIdentity(oid), Integer(value)) handed to setCmd
SetRequest(oid, value) == [kind |-> "set", oid |-> oid, value |-> value]

\* What next(g) produces: it raises, or it yields
\* (errorIndication, errorStatus, errorIndex, varBinds).
Yielded(errorIndication, errorStatus, varBinds) ==
    [how |-> "yield", errorIndication |-> errorIndication,
     errorStatus |-> errorStatus, varBinds |-> varBinds]

Raised == [how |-> "raise", errorIndication |-> "none",
           errorStatus |-> 0, varBinds |-> <<>>]

NoRes == [how |-> "none", errorIndication |-> "none",
          errorStatus |-> 0, varBinds |-> <<>>]

\* _Snmp.get, after the request: `_,_,_, res = next(g); return res[0][1]`.
\* The first three fields of the tuple are dropped; res[0] of an empty list
\* raises IndexError.
SnmpGetResult(res) ==
    IF res.how = "raise" THEN [exc |-> "PySnmpError", value |-> SnmpNull]
    ELSE IF Len(res.varBinds) = 0 THEN [exc |-> "IndexError", value |-> SnmpNull]
    ELSE [exc |-> "none", value |-> res.varBinds[1].val]

\* _Snmp.set, after the request: `next(g)`, the yielded tuple is dropped.
SnmpSetResult(res) ==
    IF res.how = "raise" THEN "PySnmpError" ELSE "none"

---------------------------------------------------------------------------
(* power_set and power_get *)

\* Variant: the port is not checked.
PortUnchecked(port) == TRUE

\* assert port is None
PortIsNone(port) == port = "None"

\* Variant: outlets counted from 0.
IndexInRangeFromZero(index) == 0 <= index /\ index <= NUMBER_OF_OUTLETS

\* assert 1 <= index <= NUMBER_OF_OUTLETS
IndexInRange(index) == 1 <= index /\ index <= NUMBER_OF_OUTLETS

\* The first three statements of power_set and of power_get, in order.
Validate(port, index) ==
    IF ~PortIsNone(port) THEN "AssertionError"
    ELSE IF ~PyInt(index).ok THEN "ValueError"
    ELSE IF ~IndexInRange(PyInt(index).n) THEN "AssertionError"
    ELSE "ok"

\* id = 4 if int(value) else 3
ControlId(value) == IF PyIntOfBool(value) # 0 THEN 4 ELSE 3

\* outlet_control_oid = "{}.{}.0.{}".format(OID, id, index)
OutletControlOid(id, index) == Format(OID, id, index)

\* Variant: the status is read from the "off" control object.
OutputStatusOidControl(index) == Format(OID, 3, index)

\* output_status_oid = "{}.2.0.{}".format(OID, index)
OutputStatusOid(index) == Format(OID, 2, index)

\* Variant: the desired state is written as the value.
ControlValueAsState(value) == PyIntOfBool(value)

\* the value power_set hands to _snmp.set
ControlValue(value) == 1

\* the request power_set issues
PowerSetRequest(index, value) ==
    SetRequest(OutletControlOid(ControlId(value), index), ControlValue(value))

\* the request power_get issues
PowerGetRequest(index) == GetRequest(OutputStatusOid(index))

\* Variant: a value that is not recognised counts as off.
DecodeDefaultOff(value) ==
    IF PyEq(value, 1) \/ PyEq(value, 3) THEN "True" ELSE "False"

\* power_get, from `if(value == 1)` to the raise
Decode(value) ==
    IF PyEq(value, 1) THEN "True"
    ELSE IF PyEq(value, 0) THEN "False"
    ELSE IF PyEq(value, 3) THEN "True"
    ELSE IF PyEq(value, 2) THEN "False"
    ELSE "ExecutionError"

\* how power_get ends, given what next(g) produced
PowerGetOutcome(res) ==
    LET g == SnmpGetResult(res)
    IN  IF g.exc # "none" THEN g.exc ELSE Decode(g.value)

\* how power_set ends, given what next(g) produced
PowerSetOutcome(res) ==
    LET e == SnmpSetResult(res)
    IN  IF e # "none" THEN e ELSE "None"

---------------------------------------------------------------------------
(* The PDU's SNMP agent: the objects the driver addresses *)

StatusSubtree == 2

OffSubtree == 3

OnSubtree == 4

Off == 0

On == 1

PendingOff == 2

PendingOn == 3

\* the object an address names in the agent's tree, if any
AgentObject(oid) ==
    LET hits == { so \in {StatusSubtree, OffSubtree, OnSubtree} \X Outlets :
                      Format(OID, so[1], so[2]) = oid }
    IN  IF hits = {} THEN [sub |-> 0, outlet |-> 0]
        ELSE LET so == CHOOSE x \in hits : TRUE
             IN  [sub |-> so[1], outlet |-> so[2]]

\* the agent's answers to a get request: the status of the outlet (or a
\* value outside the four codes); noSuchName(2) for any other address
AgentGetAnswers(req, st) ==
    LET obj == AgentObject(req.oid)
    IN  IF obj.sub = StatusSubtree
        THEN { Yielded("none", 0, <<[oid |-> req.oid, val |-> SnmpInteger(v)]>>) :
                   v \in {st[obj.outlet]} \cup OddValues }
        ELSE { Yielded("none", 2, <<[oid |-> req.oid, val |-> SnmpNull]>>) }

\* the agent's answer to a set request
AgentSetAnswer(req) ==
    LET obj == AgentObject(req.oid)
    IN  IF obj.sub \in {OffSubtree, OnSubtree} /\ req.value >= 0
        THEN Yielded("none", 0, <<[oid |-> req.oid, val |-> SnmpInteger(req.value)]>>)
        ELSE Yielded("none", 2, <<[oid |-> req.oid, val |-> SnmpInteger(req.value)]>>)

\* the outlet states after the agent has taken a request: an accepted
\* "turn on" starts the transition to On, an accepted "turn off" to Off
AgentApply(req, st) ==
    LET obj == AgentObject(req.oid)
    IN  IF req.kind = "set" /\ req.value >= 0 /\ obj.sub = OnSubtree
        THEN [st EXCEPT ![obj.outlet] = PendingOn]
        ELSE IF req.kind = "set" /\ req.value >= 0 /\ obj.sub = OffSubtree
        THEN [st EXCEPT ![obj.outlet] = PendingOff]
        ELSE st

\* next(g) yields this when no response arrives
TimedOut == Yielded("requestTimedOut", 0, <<>>)

---------------------------------------------------------------------------
(* State *)

IdleCall ==
    [op |-> "none", port |-> "None", index |-> PyIntObj(0), value |-> FALSE,
     pc |-> "idle", snmp |-> 0, log |-> <<>>, res |-> NoRes,
     outcome |-> "none", after |-> "none"]

Init ==
    /\ call = [p \in Callers |-> IdleCall]
    /\ engine = [s \in SessionIds |-> NoReq]
    /\ status = [o \in Outlets |-> Off]
    /\ lastSet = [o \in Outlets |-> "none"]
    /\ probe = <<>>

\* the outlet a validated call is about
OutletOf(c) == PyInt(c.index).n

InFlight(c, op, o) ==
    c.op = op /\ c.pc = "next" /\ OutletOf(c) = o

\* the _Snmp objects in use: those of the calls blocked in next(g)
Live == { call[q].snmp : q \in { r \in Callers : call[r].pc = "next" } }

---------------------------------------------------------------------------
(* Calls, up to the request *)

\* A call that ends in its first three statements.
RaiseEarly(p, op, port, index, value) ==
    /\ call' = [call EXCEPT ![p] =
                   [IdleCall EXCEPT !.op = op, !.port = port, !.index = index,
                                    !.value = value, !.pc = "done",
                                    !.outcome = Validate(port, index)]]
    /\ UNCHANGED <<engine, status, lastSet, probe>>

\* power_set up to the next(g) of _Snmp.set
PowerSetBegin(p, port, index, value) ==
    /\ call[p].pc # "next"
    /\ IF Validate(port, index) # "ok"
       THEN RaiseEarly(p, "power_set", port, index, value)
       ELSE LET i    == PyInt(index).n
                snmp == NewSnmp(Live)
                req  == PowerSetRequest(i, value)
            IN  /\ engine' = [engine EXCEPT ![snmp] = req]
                /\ call' = [q \in Callers |->
                              IF q = p
                              THEN [IdleCall EXCEPT
                                      !.op = "power_set", !.port = port,
                                      !.index = index, !.value = value,
                                      !.pc = "next", !.snmp = snmp,
                                      !.log = <<req>>]
                              ELSE IF InFlight(call[q], "power_get", i)
                              THEN [call[q] EXCEPT !.after = "none"]
                              ELSE call[q]]
                /\ lastSet' = [lastSet EXCEPT ![i] = "none"]
                /\ UNCHANGED <<status, probe>>

\* power_get up to the next(g) of _Snmp.get
PowerGetBegin(p, port, index) ==
    /\ call[p].pc # "next"
    /\ IF Validate(port, index) # "ok"
       THEN RaiseEarly(p, "power_get", port, index, FALSE)
       ELSE LET i    == PyInt(index).n
                snmp == NewSnmp(Live)
                req  == PowerGetRequest(i)
            IN  /\ engine' = [engine EXCEPT ![snmp] = req]
                /\ call' = [call EXCEPT ![p] =
                              [IdleCall EXCEPT
                                 !.op = "power_get", !.port = port,
                                 !.index = index, !.pc = "next",
                                 !.snmp = snmp, !.log = <<req>>,
                                 !.after = lastSet[i]]]
                /\ UNCHANGED <<status, lastSet, probe>>

---------------------------------------------------------------------------
(* The round trip in next(g), and the rest of the call *)

Pending(p) == engine[call[p].snmp]

Blocked(p) == call[p].pc = "next" /\ Pending(p).kind # "none"

\* next(g) has produced res: the rest of power_get or power_set runs, and
\* the _Snmp object goes out of use.
Finish(p, res) ==
    LET c       == call[p]
        outcome == IF c.op = "power_get" THEN PowerGetOutcome(res)
                   ELSE PowerSetOutcome(res)
        o       == OutletOf(c)
        others  == \E q \in Callers \ {p} : InFlight(call[q], "power_set", o)
    IN  /\ call' = [call EXCEPT ![p].pc = "done", ![p].res = res,
                                ![p].outcome = outcome]
        /\ engine' = [engine EXCEPT ![c.snmp] = NoReq]
        /\ lastSet' = IF c.op = "power_set" /\ outcome = "None" /\ ~others
                      THEN [lastSet EXCEPT ![o] = IF c.value THEN "on" ELSE "off"]
                      ELSE lastSet
        /\ UNCHANGED probe

\* The agent takes the request and its response arrives.
Answered(p) ==
    /\ Blocked(p)
    /\ LET req == Pending(p)
       IN  /\ status' = AgentApply(req, status)
           /\ \E res \in (IF req.kind = "get" THEN AgentGetAnswers(req, status)
                          ELSE {AgentSetAnswer(req)}) :
                 Finish(p, res)

\* The request never reaches the agent.
RequestLost(p) ==
    /\ Blocked(p)
    /\ status' = status
    /\ Finish(p, TimedOut)

\* The agent takes a set request, and its response never arrives.
ResponseLost(p) ==
    /\ Blocked(p)
    /\ Pending(p).kind = "set"
    /\ status' = AgentApply(Pending(p), status)
    /\ Finish(p, TimedOut)

\* The transport fails and next(g) raises.
TransportRaise(p) ==
    /\ Blocked(p)
    /\ status' = status
    /\ Finish(p, Raised)

\* A relay in transition settles.
Settle(o) ==
    /\ status[o] \in {PendingOn, PendingOff}
    /\ status' = [status EXCEPT ![o] = IF status[o] = PendingOn THEN On ELSE Off]
    /\ UNCHANGED <<call, engine, lastSet, probe>>

\* One caller: each call returns before the next one starts.
SeqCallers == {1}

Next ==
    \/ \E p \in SeqCallers, port \in PortInputs, index \in IndexInputs,
          value \in BOOLEAN : PowerSetBegin(p, port, index, value)
    \/ \E p \in SeqCallers, port \in PortInputs, index \in IndexInputs :
          PowerGetBegin(p, port, index)
    \/ \E p \in Callers : Answered(p)
    \/ \E p \in Callers : RequestLost(p)
    \/ \E p \in Callers : ResponseLost(p)
    \/ \E p \in Callers : TransportRaise(p)
    \/ \E o \in Outlets : Settle(o)

Spec == Init /\ [][Next]_vars

\* Concurrent callers: every caller makes one call on an outlet, and the
\* calls overlap in every possible way.
NextConcurrent ==
    \/ \E p \in Callers, index \in OutletInputs, value \in BOOLEAN :
          call[p].pc = "idle" /\ PowerSetBegin(p, "None", index, value)
    \/ \E p \in Callers, index \in OutletInputs :
          call[p].pc = "idle" /\ PowerGetBegin(p, "None", index)
    \/ \E p \in Callers : Answered(p)
    \/ \E p \in Callers : RequestLost(p)
    \/ \E p \in Callers : ResponseLost(p)
    \/ \E p \in Callers : TransportRaise(p)
    \/ \E o \in Outlets : Settle(o)

SpecConcurrent == Init /\ [][NextConcurrent]_vars

\* The addresses the calls format: the last two resolutions are kept.
AddressKinds == {"status", "on", "off"}

Address(kind, index) ==
    IF kind = "status" THEN PowerGetRequest(index).oid
    ELSE PowerSetRequest(index, kind = "on").oid

Resolve(kind, index) ==
    /\ probe' = <<[kind |-> kind, index |-> index,
                   address |-> Address(kind, index)]>>
                 \o (IF probe = <<>> THEN <<>> ELSE <<probe[1]>>)
    /\ UNCHANGED <<call, engine, status, lastSet>>

NextAddress ==
    \E kind \in AddressKinds, index \in Outlets : Resolve(kind, index)

SpecAddress == Init /\ [][NextAddress]_vars

---------------------------------------------------------------------------
(* Properties *)

Done(p) == call[p].pc = "done"

Called(p) == call[p].op # "none"

\* the call's index is an integer, and names an outlet
IndexIsInt(c) == PyInt(c.index).ok

ValidIndex(c) == IndexIsInt(c) /\ PyInt(c.index).n \in Outlets

\* the session's get returned a raw integer value to power_get
GotValue(c) ==
    /\ c.op = "power_get" /\ c.pc = "done"
    /\ c.res.how = "yield" /\ Len(c.res.varBinds) > 0
    /\ c.res.varBinds[1].val.type = "Integer"

RawValue(c) == c.res.varBinds[1].val.v

\* the request of the call failed at the transport: no response arrived,
\* or the transport raised
TransportFailed(c) ==
    c.pc = "done" /\ (c.res.how = "raise" \/ c.res.errorIndication # "none")

\* the outcomes that report a protocol failure to the caller: the driver's
\* ExecutionError, and the session's own error passed on unchanged
IsProtocolError(outcome) == outcome \in {"ExecutionError", "PySnmpError"}

NoSessionUse(c) == c.snmp = 0 /\ c.log = <<>>

\* C1: power_get decodes every raw integer: 0 and 2 give False, 1 and 3
\* give True, every other integer ends in ExecutionError, never in a boolean.
C1_DecodeTotal ==
    \A p \in Callers :
        GotValue(call[p]) =>
            LET v == RawValue(call[p])
            IN  call[p].outcome =
                    (IF v \in {Off, PendingOff} THEN "False"
                     ELSE IF v \in {On, PendingOn} THEN "True"
                     ELSE "ExecutionError")

C1_Witness ==
    \E p \in Callers :
        /\ GotValue(call[p]) /\ RawValue(call[p]) = PendingOn
        /\ call[p].outcome = "True"

\* C2: a call whose outlet index is an integer outside 1..16 ends in
\* AssertionError and has neither created a session nor issued a request.
C2_OutOfRangeNoSession ==
    \A p \in Callers :
        (Called(p) /\ IndexIsInt(call[p]) /\ PyInt(call[p].index).n \notin 1..16) =>
            /\ Done(p)
            /\ call[p].outcome = "AssertionError"
            /\ NoSessionUse(call[p])

C2_Witness ==
    \E p \in Callers :
        /\ Done(p) /\ call[p].op = "power_set" /\ call[p].port = "None"
        /\ call[p].index = PyIntObj(0)
        /\ call[p].outcome = "AssertionError"
        /\ NoSessionUse(call[p])

\* C3: a power_set with port None and an outlet index in 1..16 issues
\* exactly one request: a write of the value 1 to the "on" object of the
\* outlet when the desired state is on, to its "off" object otherwise.
C3_OneWriteOfOne ==
    \A p \in Callers :
        (call[p].op = "power_set" /\ call[p].port = "None" /\ ValidIndex(call[p])) =>
            /\ call[p].pc \in {"next", "done"}
            /\ Len(call[p].log) = 1
            /\ call[p].log[1].kind = "set"
            /\ call[p].log[1].value = 1
            /\ AgentObject(call[p].log[1].oid) =
                   [sub    |-> IF call[p].value THEN OnSubtree ELSE OffSubtree,
                    outlet |-> PyInt(call[p].index).n]

C3_Witness ==
    \E p \in Callers :
        /\ Done(p) /\ call[p].op = "power_set" /\ call[p].value
        /\ call[p].index = PyStrObj(<<"5">>)
        /\ call[p].log = <<[kind |-> "set", value |-> 1,
                            oid |-> OID \o <<".", "4", ".", "0", ".", "5">>]>>

\* C4: when the request of power_get fails at the transport, power_get ends
\* in a protocol error and never in a boolean.
C4_GetFailurePropagates ==
    \A p \in Callers :
        (call[p].op = "power_get" /\ TransportFailed(call[p])) =>
            IsProtocolError(call[p].outcome)

\* C5: when the write of power_set fails at the transport, power_set ends
\* in a protocol error, not in success, after a single write.
C5_SetFailurePropagates ==
    \A p \in Callers :
        (call[p].op = "power_set" /\ TransportFailed(call[p])) =>
            /\ IsProtocolError(call[p].outcome)
            /\ call[p].outcome # "None"
            /\ Len(call[p].log) = 1

\* C6: two resolutions give the same address exactly when they are for
\* the same (kind, outlet index) pair.
C6_AddressInjective ==
    \A a \in 1..Len(probe), b \in 1..Len(probe) :
        (probe[a].address = probe[b].address)
            <=> (probe[a].kind = probe[b].kind /\ probe[a].index = probe[b].index)

C6_Witness ==
    /\ Len(probe) = 2
    /\ probe[1].kind = "on" /\ probe[2].kind = "off"
    /\ probe[1].index = 16 /\ probe[2].index = 16
    /\ probe[1].address # probe[2].address

\* C7: a power_get with port None and an outlet index in 1..16 issues
\* exactly one request, a read of the outlet's status object, whatever the
\* read returns.
C7_OneRead ==
    \A p \in Callers :
        (call[p].op = "power_get" /\ call[p].port = "None" /\ ValidIndex(call[p])) =>
            /\ call[p].pc \in {"next", "done"}
            /\ Len(call[p].log) = 1
            /\ call[p].log[1].kind = "get"
            /\ AgentObject(call[p].log[1].oid) =
                   [sub |-> StatusSubtree, outlet |-> PyInt(call[p].index).n]

C7_Witness ==
    \E p \in Callers :
        /\ GotValue(call[p]) /\ RawValue(call[p]) \notin 0..3
        /\ call[p].outcome = "ExecutionError"
        /\ Len(call[p].log) = 1 /\ call[p].log[1].kind = "get"

\* C8: a call whose port is not None ends in AssertionError, whatever its
\* outlet index, and has neither created a session nor issued a request.
C8_PortMustBeNone ==
    \A p \in Callers :
        (Called(p) /\ call[p].port # "None") =>
            /\ Done(p)
            /\ call[p].outcome = "AssertionError"
            /\ NoSessionUse(call[p])

C8_Witness ==
    \E p \in Callers :
        /\ Done(p) /\ call[p].port = "1" /\ ValidIndex(call[p])
        /\ call[p].outcome = "AssertionError"
        /\ NoSessionUse(call[p])

\* the read of the call was answered by the device with the outlet's status
AnsweredWithStatus(c) == GotValue(c) /\ RawValue(c) \in 0..3

\* C9: after a power_set that returned normally, and with no later write to
\* the outlet, every power_get of the outlet that the device answers returns
\* the commanded state.
C9_GetReturnsCommanded ==
    \A p \in Callers :
        LET c == call[p]
        IN  (/\ AnsweredWithStatus(c) /\ c.after # "none"
             /\ lastSet[OutletOf(c)] = c.after) =>
                c.outcome = (IF c.after = "on" THEN "True" ELSE "False")

\* C10: concurrent calls never use the same _Snmp object; the request a call
\* has pending is the one formed from its own arguments, the response it
\* gets is the response to that request, and its outcome is decided by that
\* response alone.
C10_CallsIndependent ==
    /\ \A p \in Callers, q \in Callers :
          (p # q /\ call[p].pc = "next" /\ call[q].pc = "next") =>
              call[p].snmp # call[q].snmp
    /\ \A p \in Callers :
          LET c == call[p]
              i == PyInt(c.index).n
          IN  /\ c.pc \in {"next", "done"} =>
                    c.log = <<IF c.op = "power_get"
                              THEN GetRequest(Format(OID, StatusSubtree, i))
                              ELSE SetRequest(Format(OID, IF c.value THEN OnSubtree
                                                          ELSE OffSubtree, i), 1)>>
              /\ c.pc = "next" => engine[c.snmp] = c.log[1]
              /\ (c.pc = "done" /\ c.res.how = "yield" /\ Len(c.res.varBinds) > 0) =>
                    /\ c.res.varBinds[1].oid = c.log[1].oid
                    /\ c.op = "power_set" => c.outcome = "None"
                    /\ GotValue(c) =>
                          c.outcome = (IF RawValue(c) \in {1, 3} THEN "True"
                                       ELSE IF RawValue(c) \in {0, 2} THEN "False"
                                       ELSE "ExecutionError")

C10_Witness ==
    \E p \in Callers, q \in Callers :
        /\ p # q
        /\ Done(p) /\ call[p].op = "power_get" /\ call[p].outcome = "False"
        /\ call[p].snmp # 1
        /\ call[q].pc = "next" /\ call[q].op = "power_set" /\ call[q].value
        /\ OutletOf(call[p]) = OutletOf(call[q])

=============================================================================
